---- MODULE Spec2Model ----
(***************************************************************************)
(* A model of the geometric core of mattcce/raytracer:                     *)
(*   src/src/objects/intersections.rs  RawIntersect, ComputedIntersect,    *)
(*                                     Intersections                       *)
(*   src/src/utils/shape.rs            the world-space intersect wrapper   *)
(*   src/src/ray.rs                    Ray::intersect (sphere quadratic)   *)
(*                                                                         *)
(* f64 values are modelled as extended rationals <<n, d>>:                 *)
(*   d > 0   the finite value n/d, in lowest terms                         *)
(*   d = 0   n = 0 is NaN, n = 1 is +infinity, n = -1 is -infinity         *)
(* Zero is unsigned (IEEE -0.0 and +0.0 compare equal), and rounding is    *)
(* not modelled: the arithmetic is exact on the bounded inputs used here.  *)
(***************************************************************************)
EXTENDS Integers, Sequences, FiniteSets, Bags, TLC

\* ------------------------------------------------------------------ bounds

\* Largest magnitude of an integer-valued t drawn as an input.
MaxT == 1

\* Largest number of records a collection (or an input vector) holds.
MaxLen == 3

\* Largest magnitude of a coordinate of a ray's origin.
MaxCoord == 2

\* Largest magnitude of a component of a ray's direction.
MaxDir == 1

\* Largest width and height of a canvas, and the most paint_colour calls
\* made on one.
MaxWidth == 12

MaxHeight == 2

MaxPaints == 1

\* ------------------------------------------------------------- f64 values

NaN == <<0, 0>>

Abs(n) == IF n < 0 THEN -n ELSE n

Sign(n) == IF n < 0 THEN -1 ELSE IF n > 0 THEN 1 ELSE 0

RECURSIVE GCD(_, _)
GCD(a, b) == IF b = 0 THEN a ELSE GCD(b, a % b)

\* The f64 value n/d (d >= 0) in its canonical form.
Norm(n, d) ==
  IF d = 0 THEN <<Sign(n), 0>>
  ELSE LET g == GCD(Abs(n), d) IN <<n \div g, d \div g>>

F(i) == <<i, 1>>

is_nan(x) == x = NaN

IsFinite(x) == x[2] > 0

FNeg(x) == <<-x[1], x[2]>>

FMul(x, y) == Norm(x[1] * y[1], x[2] * y[2])

FAdd(x, y) ==
  IF x[2] = 0 /\ y[2] = 0 THEN (IF x = y THEN x ELSE NaN)
  ELSE IF x[2] = 0 THEN x
  ELSE IF y[2] = 0 THEN y
  ELSE LET g == GCD(x[2], y[2])
           l == (x[2] \div g) * y[2]
       IN Norm(x[1] * (l \div x[2]) + y[1] * (l \div y[2]), l)

FSub(x, y) == FAdd(x, FNeg(y))

\* x / y; a zero divisor is +0.0 (the only zero divisor of the program is
\* 2.0 * a with a a sum of squares).
FDiv(x, y) ==
  IF y[1] = 0 /\ y[2] > 0 THEN <<Sign(x[1]), 0>>
  ELSE Norm(x[1] * y[2] * Sign(y[1]), x[2] * Abs(y[1]))

\* x < y: false when either side is NaN.
FLt(x, y) ==
  IF is_nan(x) \/ is_nan(y) THEN FALSE
  ELSE IF x[2] = 0 /\ y[2] = 0 THEN x[1] < y[1]
  ELSE x[1] * y[2] < y[1] * x[2]

\* x >= y: false when either side is NaN.
FGe(x, y) == ~is_nan(x) /\ ~is_nan(y) /\ ~FLt(x, y)

FLe(x, y) == FGe(y, x)

\* f64::partial_cmp: None when either side is NaN.
partial_cmp(a, b) ==
  IF is_nan(a) \/ is_nan(b) THEN "None"
  ELSE IF FLt(a, b) THEN "Less"
  ELSE IF FLt(b, a) THEN "Greater"
  ELSE "Equal"

IsSquare(n) == \E r \in 0..n : r * r = n

ISqrt(n) == CHOOSE r \in 0..n : r * r = n

\* The values whose square root is a rational: the model draws only rays
\* whose discriminant is one of them, or has no real root.
HasExactSqrt(x) == x[2] = 0 \/ x[1] < 0 \/ (IsSquare(x[1]) /\ IsSquare(x[2]))

\* f64::sqrt: NaN for NaN and for a negative value.
FSqrt(x) ==
  IF is_nan(x) \/ FLt(x, F(0)) THEN NaN
  ELSE IF x[2] = 0 THEN x
  ELSE <<ISqrt(x[1]), ISqrt(x[2])>>

\* --------------------------------------------------------- Point and Vector

Coords == {1, 2, 3}

VDot(u, v) == FAdd(FAdd(FMul(u[1], v[1]), FMul(u[2], v[2])), FMul(u[3], v[3]))

VNeg(v) == [i \in Coords |-> FNeg(v[i])]

VAdd(u, v) == [i \in Coords |-> FAdd(u[i], v[i])]

VSub(u, v) == [i \in Coords |-> FSub(u[i], v[i])]

VScale(v, k) == [i \in Coords |-> FMul(v[i], k)]

Point_zero == [i \in Coords |-> F(0)]

\* ---------------------------------------------------------------- Transform

Transform_new(kind, x, y, z) == [kind |-> kind, v |-> <<x, y, z>>]

Identity == Transform_new("Identity", F(0), F(0), F(0))

Translate(x, y, z) == Transform_new("Translate", F(x), F(y), F(z))

Scale(x, y, z) == Transform_new("Scale", F(x), F(y), F(z))

\* Transform::invert
invert(m) ==
  IF m.kind = "Translate" THEN [m EXCEPT !.v = VNeg(m.v)]
  ELSE IF m.kind = "Scale" THEN [m EXCEPT !.v = [i \in Coords |-> FDiv(F(1), m.v[i])]]
  ELSE m

\* Transformable for Point: a translation moves a point.
Point_transform(p, m) ==
  IF m.kind = "Translate" THEN VAdd(p, m.v)
  ELSE IF m.kind = "Scale" THEN [i \in Coords |-> FMul(p[i], m.v[i])]
  ELSE p

\* Transformable for Vector: a translation leaves a vector alone.
Vector_transform(v, m) ==
  IF m.kind = "Scale" THEN [i \in Coords |-> FMul(v[i], m.v[i])]
  ELSE v

\* ----------------------------------------------------- RawIntersect records

\* The shapes of the scene (RawIntersect.object borrows one of them).
Objects == {"s1", "s2"}

\* The world ray every record of one collection borrows.
WorldRay == "ray"

RawIntersect_new(t, object, ray) == [t |-> t, object |-> object, ray |-> ray]

\* The t values drawn as inputs: the integers of -MaxT..MaxT, and NaN.
RealT == {F(i) : i \in (-MaxT)..MaxT}

InputT == RealT \cup {NaN}

Records == {RawIntersect_new(t, o, WorldRay) : t \in InputT, o \in Objects}

Vecs(S, k) == UNION {[1..n -> S] : n \in 0..k}

\* ------------------------------------------------------------ Intersections

InsertAt(s, i, e) == SubSeq(s, 1, i - 1) \o <<e>> \o SubSeq(s, i, Len(s))

\* One step of the stable sort: e goes before the first element it is Less
\* than, so after every element not greater.
SortInsert(sorted, e) ==
  LET later == {i \in 1..Len(sorted) : partial_cmp(e.t, sorted[i].t) = "Less"}
  IN IF later = {} THEN Append(sorted, e)
     ELSE InsertAt(sorted, CHOOSE i \in later : \A j \in later : i <= j, e)

RECURSIVE SortFold(_, _)
SortFold(sorted, rest) ==
  IF rest = <<>> THEN sorted
  ELSE SortFold(SortInsert(sorted, Head(rest)), Tail(rest))

\* Vec::sort_by with a total comparator: the stable ascending sort, computed
\* as an insertion sort over the vector from front to back.
SortBy(vec) == SortFold(<<>>, vec)

\* Intersections::new: [ok |-> FALSE] is the panic; v is the Vec of the
\* collection.  The comparator's unwrap panics as soon as the sort compares
\* a NaN, which it does for any NaN among two or more elements.
Intersections_new_unsorted(vec) ==
  IF Len(vec) = 0 THEN [ok |-> FALSE, v |-> <<>>]
  ELSE [ok |-> TRUE, v |-> vec]

Intersections_new(vec) ==
  IF Len(vec) = 0 THEN [ok |-> FALSE, v |-> <<>>]
  ELSE IF Len(vec) >= 2 /\ \E i \in 1..Len(vec) : is_nan(vec[i].t)
    THEN [ok |-> FALSE, v |-> <<>>]
  ELSE [ok |-> TRUE, v |-> SortBy(vec)]

\* impl From<Vec<RawIntersect>> for Intersections
Intersections_from(value) == Intersections_new(value)

\* impl Default for Intersections
Intersections_default == <<>>

add_raw_intersect_push(self, intersect) == Append(self, intersect)

\* Intersections::add_raw_intersect: before the first record with a greater
\* t, at the back when there is none.
add_raw_intersect(self, intersect) ==
  LET later == {i \in 1..Len(self) : FLt(intersect.t, self[i].t)}
  IN IF later = {} THEN Append(self, intersect)
     ELSE InsertAt(self, CHOOSE i \in later : \A j \in later : i <= j, intersect)

RECURSIVE combine_fold(_, _)
combine_fold(self, rest) ==
  IF rest = <<>> THEN self
  ELSE combine_fold(add_raw_intersect(self, Head(rest)), Tail(rest))

combine_intersections_skip_first(self, intersections) ==
  IF intersections = <<>> THEN self
  ELSE combine_fold(self, Tail(intersections))

\* Intersections::combine_intersections
combine_intersections(self, intersections) == combine_fold(self, intersections)

NoHit == 0

hit_strict(self) ==
  LET hits == {i \in 1..Len(self) : FLt(F(0), self[i].t)}
  IN IF hits = {} THEN NoHit ELSE CHOOSE i \in hits : \A j \in hits : i <= j

\* Intersections::hit: the position of the first record with t >= 0.0 (the
\* returned reference), NoHit for None.
hit(self) ==
  LET hits == {i \in 1..Len(self) : FGe(self[i].t, F(0))}
  IN IF hits = {} THEN NoHit ELSE CHOOSE i \in hits : \A j \in hits : i <= j

\* ------------------------------------------------- the world-space wrapper

\* What LocallyIntersectable::local_intersect may return for the local ray:
\* None, or Some(vector of t), the empty vector included.
LocalResults ==
  {[some |-> FALSE, ts |-> <<>>]}
    \cup {[some |-> TRUE, ts |-> ts] : ts \in Vecs(InputT, MaxLen)}

\* impl<S: Shape> Intersectable for S / impl Intersectable for dyn Shape:
\* the outcome of intersect when local_intersect returns `local`.
Shape_intersect(self, world_ray, local) ==
  IF ~local.some THEN [ok |-> TRUE, v |-> Intersections_default]
  ELSE Intersections_from(
         [i \in 1..Len(local.ts) |-> RawIntersect_new(local.ts[i], self, world_ray)])

\* ---------------------------------------------------------- Ray and Sphere

Ray_new(origin, direction) == [origin |-> origin, direction |-> direction]

Sphere_new(transform) == [transform |-> transform]

\* impl Transformable for Ray
Ray_transform(self, transform) ==
  Ray_new(Point_transform(self.origin, transform),
          Vector_transform(self.direction, transform))

\* Ray::position
position(self, t) == VAdd(self.origin, VScale(self.direction, t))

\* The ray of Ray::intersect in the sphere's local space, and the
\* coefficients and discriminant of its quadratic.
transformed_ray(self, s) == Ray_transform(self, invert(s.transform))

sphere_to_ray(self, s) == VSub(transformed_ray(self, s).origin, Point_zero)

quad_a(self, s) ==
  VDot(transformed_ray(self, s).direction, transformed_ray(self, s).direction)

quad_b(self, s) ==
  FMul(F(2), VDot(transformed_ray(self, s).direction, sphere_to_ray(self, s)))

quad_c(self, s) ==
  FSub(VDot(sphere_to_ray(self, s), sphere_to_ray(self, s)), F(1))

discriminant(self, s) ==
  FSub(FMul(quad_b(self, s), quad_b(self, s)),
       FMul(FMul(F(4), quad_a(self, s)), quad_c(self, s)))

Intersect_new(t, s) == [t |-> t, object |-> s]

\* Ray::intersect: None, Some(collection), or the panic of the collection's
\* constructor.
Ray_intersect(self, s) ==
  LET a == quad_a(self, s)
      b == quad_b(self, s)
      sqrt_discriminant == FSqrt(discriminant(self, s))
      t1 == FDiv(FSub(FNeg(b), sqrt_discriminant), FMul(F(2), a))
      t2 == FDiv(FAdd(FNeg(b), sqrt_discriminant), FMul(F(2), a))
      made == Intersections_from(<<Intersect_new(t1, s), Intersect_new(t2, s)>>)
  IN IF is_nan(sqrt_discriminant) THEN [kind |-> "None", v |-> <<>>]
     ELSE IF made.ok THEN [kind |-> "Some", v |-> made.v]
     ELSE [kind |-> "panic", v |-> <<>>]

\* The rays and spheres drawn as inputs.
Axis(k) == {F(i) : i \in (-k)..k}

Points(k) == [Coords -> Axis(k)]

Transforms == {Identity, Translate(1, 0, 0), Scale(2, 2, 2)}

Rays == {Ray_new(o, d) : o \in Points(MaxCoord), d \in Points(MaxDir)}

Spheres == {Sphere_new(m) : m \in Transforms}

\* ------------------------------------------- ComputedIntersect and shading

EPSILON == <<1, 1000000>>

\* A shape as precompute and shade see it: what its normal_at returns at the
\* target, and its material.
Shape_new(normal, material) == [normal |-> normal, material |-> material]

normal_at(object, world_point) == object.normal

ComputedIntersect(t, object, ray, target, eyev, normal, inside, over_point) ==
  [t |-> t, object |-> object, ray |-> ray, target |-> target, eyev |-> eyev,
   normal |-> normal, inside |-> inside, over_point |-> over_point]

NoComputed == [ok |-> FALSE, c |-> <<>>]

precompute_no_flip(self) ==
  LET target == position(self.ray, self.t)
      eyev == VNeg(self.ray.direction)
      normal == normal_at(self.object, target)
      d == VDot(normal, eyev)
  IN IF ~FLt(d, F(0)) /\ ~FGe(d, F(0)) THEN NoComputed
     ELSE [ok |-> TRUE,
           c |-> ComputedIntersect(self.t, self.object, self.ray, target, eyev,
                                   normal, FLt(d, F(0)),
                                   VAdd(target, VScale(normal, EPSILON)))]

precompute_raw_offset(self) ==
  LET target == position(self.ray, self.t)
      eyev == VNeg(self.ray.direction)
      raw == normal_at(self.object, target)
      d == VDot(raw, eyev)
  IN IF ~FLt(d, F(0)) /\ ~FGe(d, F(0)) THEN NoComputed
     ELSE [ok |-> TRUE,
           c |-> ComputedIntersect(self.t, self.object, self.ray, target, eyev,
                                   IF FLt(d, F(0)) THEN VNeg(raw) ELSE raw,
                                   FLt(d, F(0)),
                                   VAdd(target, VScale(raw, EPSILON)))]

precompute_default_outside(self) ==
  LET target == position(self.ray, self.t)
      eyev == VNeg(self.ray.direction)
      raw == normal_at(self.object, target)
      d == VDot(raw, eyev)
      normal == IF FLt(d, F(0)) THEN VNeg(raw) ELSE raw
  IN [ok |-> TRUE,
      c |-> ComputedIntersect(self.t, self.object, self.ray, target, eyev,
                              normal, FLt(d, F(0)),
                              VAdd(target, VScale(normal, EPSILON)))]

\* RawIntersect::precompute: [ok |-> FALSE] is the panic of the match's last
\* arm, taken when the dot product is neither < 0.0 nor >= 0.0.
precompute(self) ==
  LET target == position(self.ray, self.t)
      eyev == VNeg(self.ray.direction)
      raw == normal_at(self.object, target)
      d == VDot(raw, eyev)
      inside == FLt(d, F(0))
      normal == IF inside THEN VNeg(raw) ELSE raw
      over_point == VAdd(target, VScale(normal, EPSILON))
  IN IF ~FLt(d, F(0)) /\ ~FGe(d, F(0)) THEN NoComputed
     ELSE [ok |-> TRUE,
           c |-> ComputedIntersect(self.t, self.object, self.ray, target, eyev,
                                   normal, inside, over_point)]

\* ComputedIntersect::shade: the arguments it hands to Light::shade_phong.
shade(self, shadowed) ==
  [material |-> self.object.material, point |-> self.over_point,
   eyev |-> self.eyev, normal |-> self.normal, shadowed |-> shadowed]

\* The records drawn as inputs of precompute: a real t, a ray from one of two
\* origins, and a shape whose normal_at returns a vector with components in
\* -1..1 or a vector holding a NaN.
ShadeOrigins == {Point_zero, <<F(0), F(1), F(-MaxCoord)>>}

Normals ==
  Points(1) \cup {<<NaN, F(0), F(1)>>, <<F(0), F(-1), NaN>>}

ShadeRecords ==
  {RawIntersect_new(t, Shape_new(n, "material"), Ray_new(o, d)) :
     t \in RealT, n \in Normals, o \in ShadeOrigins, d \in Points(MaxDir)}

\* ------------------------------------------------------------------ Canvas

PPM_HEADER == "P3"

PIXEL_MAX == 255

\* The longest row_buffer write_to_ppm lets build up before it breaks the line.
LINE_MAX == 70

\* (x * PIXEL_MAX as f64).round() as u64 for the x the match lets through:
\* half rounds away from zero, and the cast takes NaN and negatives to 0.
round_as_u64(v) ==
  IF ~IsFinite(v) \/ v[1] < 0 THEN 0
  ELSE (2 * v[1] + v[2]) \div (2 * v[2])

\* One channel of Pixel::paint.
paint_channel(x) ==
  IF FLt(F(1), x) THEN PIXEL_MAX
  ELSE IF FLt(x, F(0)) THEN 0
  ELSE round_as_u64(FMul(x, F(PIXEL_MAX)))

Colour_new(red, green, blue) == [red |-> red, green |-> green, blue |-> blue]

\* Pixel::paint
Pixel_paint(colour) ==
  [red |-> paint_channel(colour.red),
   green |-> paint_channel(colour.green),
   blue |-> paint_channel(colour.blue)]

\* Canvas::new: height rows of width black pixels (row r, column c of the
\* code is pixels[r + 1][c + 1] here).
Canvas_new(width, height) ==
  [size |-> [width |-> width, height |-> height],
   pixels |-> [r \in 1..height |->
                 [c \in 1..width |-> Pixel_paint(Colour_new(F(0), F(0), F(0)))]]]

\* Canvas::paint_colour: Err(WriteError::OutOfBounds), Ok(()) with the pixel
\* written, or the panic of indexing self.pixels[row][column] past the end.
paint_colour(self, column, row, colour) ==
  IF column > self.size.width \/ row > self.size.height
    THEN [res |-> "Err", canvas |-> self]
  ELSE IF row >= Len(self.pixels) \/ column >= Len(self.pixels[row + 1])
    THEN [res |-> "panic", canvas |-> self]
  ELSE [res |-> "Ok",
        canvas |-> [self EXCEPT !.pixels[row + 1][column + 1] = Pixel_paint(colour)]]

\* str::trim on a buffer of digits and spaces.
RECURSIVE trim(_)
trim(str) ==
  IF Len(str) = 0 THEN str
  ELSE IF SubSeq(str, 1, 1) = " " THEN trim(SubSeq(str, 2, Len(str)))
  ELSE IF SubSeq(str, Len(str), Len(str)) = " "
    THEN trim(SubSeq(str, 1, Len(str) - 1))
  ELSE str

\* u64::to_string
to_string(n) == ToString(n)

\* The colour_values of one pixel.
colour_values(pixel) ==
  <<to_string(pixel.red), to_string(pixel.green), to_string(pixel.blue)>>

RECURSIVE row_values(_)
row_values(row) ==
  IF row = <<>> THEN <<>> ELSE colour_values(Head(row)) \o row_values(Tail(row))

\* The inner loops of write_to_ppm over one row: buffer is the lines written
\* for this row so far, row_buffer the line being built, rest the values
\* still to come.
RECURSIVE write_row_no_wrap(_, _, _)
write_row_no_wrap(buffer, row_buffer, rest) ==
  IF rest = <<>> THEN Append(buffer, trim(row_buffer))
  ELSE write_row_no_wrap(buffer, row_buffer \o Head(rest) \o " ", Tail(rest))

RECURSIVE write_row(_, _, _)
write_row(buffer, row_buffer, rest) ==
  IF rest = <<>> THEN Append(buffer, trim(row_buffer))
  ELSE IF Len(row_buffer) + Len(Head(rest)) + 1 > LINE_MAX
    THEN write_row(Append(buffer, trim(row_buffer)), Head(rest) \o " ", Tail(rest))
  ELSE write_row(buffer, row_buffer \o Head(rest) \o " ", Tail(rest))

RECURSIVE write_rows(_, _)
write_rows(buffer, rows) ==
  IF rows = <<>> THEN buffer
  ELSE write_rows(buffer \o write_row(<<>>, "", row_values(Head(rows))),
                  Tail(rows))

\* Canvas::write_to_ppm: the lines of the buffer it returns in Ok (every
\* writeln! ends its line with a line feed; writing to a Vec cannot fail).
write_to_ppm(self) ==
  write_rows(<<PPM_HEADER,
               to_string(self.size.width) \o " " \o to_string(self.size.height),
               to_string(PIXEL_MAX)>>,
             self.pixels)

\* The colours drawn as inputs of paint_colour: one that paints channels of
\* three and two digits with blue above 1.0, and one with red below 0.0,
\* green NaN and a blue that rounds to one digit.
Colours ==
  {Colour_new(<<1, 2>>, <<1, 5>>, F(2)),
   Colour_new(F(-1), NaN, <<1, 50>>)}

\* The indices drawn as inputs of paint_colour along an axis of the given
\* length: the first, the last, the length itself and one past it.
Indices(length) == {0, length - 1, length, length + 1} \cap Nat

\* ------------------------------------------------------------------- state

VARIABLES
  xs,        \* Intersections.0 of the collection under construction
  op,        \* the last operation applied to it ("none" before the first)
  arg,       \* that operation's argument
  pre,       \* the collection before that operation
  ret,       \* what the last hit() returned
  panicked   \* the last operation panicked: the program is gone

collVars == <<xs, op, arg, pre, ret, panicked>>

VARIABLES
  ray,       \* the world ray of Ray::intersect
  sphere,    \* the sphere it is cast at
  rayDone,   \* Ray::intersect has run
  found      \* what it returned

rayVars == <<ray, sphere, rayDone, found>>

VARIABLES
  raw,       \* the RawIntersect being shaded
  stage,     \* "raw", then "computed" or "panicked", then "shaded"
  computed,  \* the ComputedIntersect precompute returned
  phong      \* the arguments shade handed to Light::shade_phong

shadeVars == <<raw, stage, computed, phong>>

VARIABLES
  canvas,    \* the Canvas
  call,      \* the last method called on it, with its arguments and the
             \* canvas it was called on
  result,    \* what that call returned, or "panic"
  painted,   \* how many paint_colour calls were made
  ppm        \* the lines of the buffer the last write_to_ppm returned

canvasVars == <<canvas, call, result, painted, ppm>>

vars == <<collVars, rayVars, shadeVars, canvasVars>>

NoArg == <<>>

CollInit ==
  /\ xs = <<>>
  /\ op = "none"
  /\ arg = NoArg
  /\ pre = <<>>
  /\ ret = NoHit
  /\ panicked = FALSE

\* The collections of n records a caller can hold to merge in: the default
\* one, and what Intersections::new returns.
Others ==
  [n \in 0..MaxLen |->
     IF n = 0 THEN {Intersections_default}
     ELSE {Intersections_new(v).v :
             v \in {w \in [1..n -> Records] : Intersections_new(w).ok}}]

\* What a constructor call leaves: the collection r.v, or a panic.
Built(r) ==
  /\ pre' = xs
  /\ xs' = r.v
  /\ panicked' = ~r.ok
  /\ UNCHANGED <<ret, rayVars, shadeVars, canvasVars>>

\* let xs = Intersections::new(vec) (or vec.into())
New ==
  /\ op = "none"
  /\ \E vec \in Vecs(Records, MaxLen) :
       /\ op' = "new"
       /\ arg' = vec
       /\ Built(Intersections_new(vec))

\* let xs = Intersections::default()
Default ==
  /\ op = "none"
  /\ op' = "default"
  /\ arg' = NoArg
  /\ Built([ok |-> TRUE, v |-> Intersections_default])

\* let xs = shape.intersect(&world_ray)
ShapeIntersect ==
  /\ op = "none"
  /\ \E o \in Objects, local \in LocalResults :
       /\ op' = "intersect"
       /\ arg' = local
       /\ Built(Shape_intersect(o, WorldRay, local))

Constructed == op # "none" /\ ~panicked

\* xs.add_raw_intersect(intersect)
AddRawIntersect ==
  /\ Constructed
  /\ Len(xs) < MaxLen
  /\ \E intersect \in Records :
       /\ op' = "add"
       /\ arg' = intersect
       /\ pre' = xs
       /\ xs' = add_raw_intersect(xs, intersect)
       /\ UNCHANGED <<ret, panicked, rayVars, shadeVars, canvasVars>>

\* xs.combine_intersections(intersections)
CombineIntersections ==
  /\ Constructed
  /\ \E n \in 0..(MaxLen - Len(xs)) : \E intersections \in Others[n] :
       /\ op' = "combine"
       /\ arg' = intersections
       /\ pre' = xs
       /\ xs' = combine_intersections(xs, intersections)
       /\ UNCHANGED <<ret, panicked, rayVars, shadeVars, canvasVars>>

\* xs.hit()
Hit ==
  /\ Constructed
  /\ op' = "hit"
  /\ arg' = NoArg
  /\ pre' = xs
  /\ ret' = hit(xs)
  /\ UNCHANGED <<xs, panicked, rayVars, shadeVars, canvasVars>>

\* ------------------------------------------------------ Ray::intersect run

NoneFound == [kind |-> "None", v |-> <<>>]

RayIdle ==
  /\ ray = Ray_new(Point_zero, Point_zero)
  /\ sphere = Sphere_new(Identity)
  /\ rayDone = FALSE
  /\ found = NoneFound

RayInit ==
  /\ ray \in Rays
  /\ sphere \in Spheres
  /\ HasExactSqrt(discriminant(ray, sphere))
  /\ rayDone = FALSE
  /\ found = NoneFound

\* let found = ray.intersect(&sphere)
RayIntersect ==
  /\ ~rayDone
  /\ rayDone' = TRUE
  /\ found' = Ray_intersect(ray, sphere)
  /\ UNCHANGED <<ray, sphere, collVars, shadeVars, canvasVars>>

\* ------------------------------------------------- precompute and shade run

NoCall == <<>>

ShadeIdle ==
  /\ raw = <<>>
  /\ stage = "idle"
  /\ computed = <<>>
  /\ phong = NoCall

ShadeInit ==
  /\ raw \in ShadeRecords
  /\ stage = "raw"
  /\ computed = <<>>
  /\ phong = NoCall

\* let computed = raw.precompute()
Precompute ==
  /\ stage = "raw"
  /\ stage' = IF precompute(raw).ok THEN "computed" ELSE "panicked"
  /\ computed' = precompute(raw).c
  /\ UNCHANGED <<raw, phong, collVars, rayVars, canvasVars>>

\* computed.shade(&light, shadowed)
Shade ==
  /\ stage = "computed"
  /\ \E shadowed \in BOOLEAN :
       /\ stage' = "shaded"
       /\ phong' = shade(computed, shadowed)
       /\ UNCHANGED <<raw, computed, collVars, rayVars, canvasVars>>

\* -------------------------------------------------------------- Canvas run

NoCanvasCall == [method |-> "none"]

CanvasIdle ==
  /\ canvas = <<>>
  /\ call = NoCanvasCall
  /\ result = "none"
  /\ painted = 0
  /\ ppm = <<>>

\* let mut canvas = Canvas::new(Width(width), Height(height))
CanvasInit ==
  /\ canvas \in {Canvas_new(width, height) :
                   width \in 0..MaxWidth, height \in 0..MaxHeight}
  /\ call = NoCanvasCall
  /\ result = "none"
  /\ painted = 0
  /\ ppm = <<>>

\* canvas.paint_colour(column, row, colour)
PaintColour ==
  /\ result # "panic"
  /\ painted < MaxPaints
  /\ \E column \in Indices(canvas.size.width),
        row \in Indices(canvas.size.height),
        colour \in Colours :
       /\ call' = [method |-> "paint_colour", column |-> column, row |-> row,
                   colour |-> colour, self |-> canvas]
       /\ result' = paint_colour(canvas, column, row, colour).res
       /\ canvas' = paint_colour(canvas, column, row, colour).canvas
       /\ painted' = painted + 1
       /\ UNCHANGED <<ppm, collVars, rayVars, shadeVars>>

\* canvas.write_to_ppm()
WriteToPpm ==
  /\ result # "panic"
  /\ call' = [method |-> "write_to_ppm", self |-> canvas]
  /\ result' = "Ok"
  /\ ppm' = write_to_ppm(canvas)
  /\ UNCHANGED <<canvas, painted, collVars, rayVars, shadeVars>>

\* ----------------------------------------------------------- specifications

Init == CollInit /\ RayIdle /\ ShadeIdle /\ CanvasIdle

Next ==
  \/ New
  \/ Default
  \/ ShapeIntersect
  \/ AddRawIntersect
  \/ CombineIntersections
  \/ Hit

\* The life of one Intersections collection.
Spec == Init /\ [][Next]_vars

InitRay == CollInit /\ RayInit /\ ShadeIdle /\ CanvasIdle

RayNext == RayIntersect

\* One call of Ray::intersect.
SpecRay == InitRay /\ [][RayNext]_vars

InitShade == CollInit /\ RayIdle /\ ShadeInit /\ CanvasIdle

ShadeNext ==
  \/ Precompute
  \/ Shade

\* One record taken through precompute and shade.
SpecShade == InitShade /\ [][ShadeNext]_vars

InitCanvas == CollInit /\ RayIdle /\ ShadeIdle /\ CanvasInit

CanvasNext ==
  \/ PaintColour
  \/ WriteToPpm

\* One canvas painted and written out.
SpecCanvas == InitCanvas /\ [][CanvasNext]_vars

\* ------------------------------------------------ claims on the collection

AllReal(s) == \A i \in 1..Len(s) : IsFinite(s[i].t)

Sorted(s) == \A i, j \in 1..Len(s) : i < j => FLe(s[i].t, s[j].t)

Range(s) == {s[i] : i \in 1..Len(s)}

\* The multiset of a sequence's elements.
BagOf(s) == [e \in Range(s) |-> Cardinality({i \in 1..Len(s) : s[i] = e})]

RemoveAt(s, i) == SubSeq(s, 1, i - 1) \o SubSeq(s, i + 1, Len(s))

TsOf(s) == [i \in 1..Len(s) |-> s[i].t]

\* C1: a collection built by new, default or the intersect wrapper and then
\* changed by any sequence of add_raw_intersect and combine_intersections has
\* non-decreasing t from front to back, as long as every t is a real number.
C1_SortednessInvariant ==
  (Constructed /\ AllReal(xs)) => Sorted(xs)

\* A merge of two real-valued records into a collection, one of them going
\* in front of a record that was already there.
C1_Witness ==
  /\ op = "combine"
  /\ AllReal(xs)
  /\ Len(pre) >= 1
  /\ Len(arg) >= 2
  /\ FLt(arg[1].t, pre[1].t)

\* C2: on a real-valued collection hit() returns None exactly when every t is
\* negative (the empty collection included); otherwise it returns a record
\* with t >= 0 whose t no other non-negative record undercuts, and among the
\* records sharing that t the one earliest in the collection.
C2_HitSelection ==
  (op = "hit" /\ AllReal(xs)) =>
    LET nonneg == {i \in 1..Len(xs) : FGe(xs[i].t, F(0))}
    IN /\ (ret = NoHit) <=> (\A i \in 1..Len(xs) : FLt(xs[i].t, F(0)))
       /\ ret # NoHit =>
            /\ ret \in nonneg
            /\ \A j \in nonneg : FLe(xs[ret].t, xs[j].t)
            /\ \A j \in 1..Len(xs) : xs[j].t = xs[ret].t => ret <= j

\* hit() skipped a negative record and chose the first of two records tied
\* at the smallest non-negative t.
C2_Witness ==
  /\ op = "hit"
  /\ AllReal(xs)
  /\ ret >= 2
  /\ ret < Len(xs)
  /\ FLt(xs[1].t, F(0))
  /\ xs[ret + 1].t = xs[ret].t

\* C3: when local_intersect reports no local intersections (None, or Some of
\* an empty vector) the intersect wrapper returns the empty collection and
\* does not panic.
C3_NoLocalIntersections ==
  (op = "intersect" /\ Len(arg.ts) = 0) => (~panicked /\ xs = <<>>)

\* C8: Intersections::new, and From<Vec> as the intersect wrapper calls it,
\* panics on an empty vector, and on a non-empty vector of real-valued
\* records returns a permutation of the input sorted ascending by t.
C8_NewSortsOrPanics ==
  /\ op = "new" =>
       /\ Len(arg) = 0 => panicked
       /\ (Len(arg) > 0 /\ AllReal(arg)) =>
            (~panicked /\ Sorted(xs) /\ BagOf(xs) = BagOf(arg))
  /\ (op = "intersect" /\ arg.some) =>
       /\ Len(arg.ts) = 0 => panicked
       /\ (Len(arg.ts) > 0 /\ \A i \in 1..Len(arg.ts) : IsFinite(arg.ts[i])) =>
            (~panicked /\ Sorted(xs) /\ BagOf(TsOf(xs)) = BagOf(arg.ts))

\* new was given a full vector of real-valued records out of order, with
\* the largest t in front.
C8_Witness ==
  /\ op = "new"
  /\ ~panicked
  /\ Len(arg) = MaxLen
  /\ AllReal(arg)
  /\ \A i \in 2..Len(arg) : FLt(arg[i].t, arg[1].t)
  /\ xs # arg

\* C9: combine_intersections leaves a collection as long as both inputs
\* together and holding exactly the multiset union of their records;
\* add_raw_intersect grows the collection by the one record, the records
\* already there keeping their order.
C9_MergeAndInsertKeepRecords ==
  /\ op = "combine" =>
       /\ Len(xs) = Len(pre) + Len(arg)
       /\ BagOf(xs) = BagOf(pre) (+) BagOf(arg)
  /\ op = "add" =>
       /\ Len(xs) = Len(pre) + 1
       /\ \E i \in 1..Len(xs) : xs[i] = arg /\ RemoveAt(xs, i) = pre

\* A merge of two records into a collection that already held one.
C9_Witness ==
  /\ op = "combine"
  /\ Len(pre) >= 1
  /\ Len(arg) >= 2
  /\ arg[1] # arg[2]

\* ------------------------------------------------ claims on Ray::intersect

\* t solves a*t^2 + b*t + c = 0 for the quadratic of the run's ray and sphere.
IsRoot(t) ==
  FAdd(FAdd(FMul(quad_a(ray, sphere), FMul(t, t)), FMul(quad_b(ray, sphere), t)),
       quad_c(ray, sphere)) = F(0)

\* C4: Ray::intersect never hands out a record whose t is NaN, and for a
\* degenerate quadratic (a = 0, a zero-length direction) it returns with no
\* records at all.
C4_DegenerateYieldsNoRecords ==
  rayDone =>
    /\ \A i \in 1..Len(found.v) : ~is_nan(found.v[i].t)
    /\ quad_a(ray, sphere) = F(0) => (found.kind # "panic" /\ found.v = <<>>)

\* C5: Ray::intersect returns None exactly when the discriminant is negative;
\* otherwise it returns Some collection of exactly two records, t1 <= t2, both
\* of them roots of the quadratic and together all of its roots (their sum is
\* -b/a), whatever their signs and also when they are equal.
C5_AbsentIffNegativeDiscriminant ==
  rayDone =>
    /\ (found.kind = "None") <=> FLt(discriminant(ray, sphere), F(0))
    /\ ~FLt(discriminant(ray, sphere), F(0)) =>
         /\ found.kind = "Some"
         /\ Len(found.v) = 2
         /\ FLe(found.v[1].t, found.v[2].t)
         /\ IsRoot(found.v[1].t)
         /\ IsRoot(found.v[2].t)
         /\ FMul(quad_a(ray, sphere), FAdd(found.v[1].t, found.v[2].t))
              = FNeg(quad_b(ray, sphere))

\* ------------------------------------------- claims on precompute and shade

WellFormed(v) == \A i \in Coords : IsFinite(v[i])

\* C6: for a record whose shape gives a well-formed normal, precompute sets
\* inside exactly when that normal dotted with eyev (the negated direction)
\* is < 0, stores the negated normal then and the normal itself otherwise,
\* and the stored normal dotted with eyev is >= 0.
C6_InsideFlipsNormal ==
  (stage \in {"computed", "shaded"} /\ WellFormed(raw.object.normal)) =>
    /\ computed.eyev = VNeg(raw.ray.direction)
    /\ computed.inside <=> FLt(VDot(raw.object.normal, computed.eyev), F(0))
    /\ computed.normal =
         (IF computed.inside THEN VNeg(raw.object.normal) ELSE raw.object.normal)
    /\ FGe(VDot(computed.normal, computed.eyev), F(0))

\* precompute met a normal pointing away from the eye and flipped it.
C6_Witness ==
  /\ stage = "computed"
  /\ WellFormed(raw.object.normal)
  /\ computed.inside
  /\ computed.normal # raw.object.normal
  /\ FLt(F(0), VDot(computed.normal, computed.eyev))

\* C7: over_point is target + normal * EPSILON for the normal as stored
\* (after the inside flip), so over_point - target does not point away from
\* the eye; and shade hands over_point to the lighting function.
C7_OverPointAlongStoredNormal ==
  /\ stage \in {"computed", "shaded"} =>
       /\ computed.target = position(raw.ray, raw.t)
       /\ VSub(computed.over_point, computed.target)
            = VScale(computed.normal, EPSILON)
       /\ FGe(VDot(VSub(computed.over_point, computed.target), computed.eyev),
              F(0))
  /\ stage = "shaded" =>
       /\ phong.point = computed.over_point
       /\ phong.eyev = computed.eyev
       /\ phong.normal = computed.normal
       /\ phong.material = raw.object.material

\* shade ran on a hit seen from inside, where over_point differs both from
\* target and from target + the shape's own normal * EPSILON.
C7_Witness ==
  /\ stage = "shaded"
  /\ computed.inside
  /\ phong.point # computed.target
  /\ phong.point
       # VAdd(computed.target, VScale(raw.object.normal, EPSILON))

\* C10: when the dot product of the normal and eyev is NaN (neither < 0 nor
\* >= 0) precompute panics; it returns a ComputedIntersect only for a dot
\* product that is a number.
C10_NaNDotPanics ==
  /\ (stage # "raw" /\ is_nan(VDot(raw.object.normal, VNeg(raw.ray.direction))))
       => stage = "panicked"
  /\ stage \in {"computed", "shaded"} =>
       ~is_nan(VDot(raw.object.normal, VNeg(raw.ray.direction)))

\* precompute was given a shape whose normal holds a NaN, and panicked.
C10_Witness ==
  /\ stage = "panicked"
  /\ ~WellFormed(raw.object.normal)
  /\ computed = <<>>


\* -------------------------------------------------- claims on the canvas

\* The decimal digit a one-character string stands for.
DigitOf(ch) == CHOOSE d \in 0..9 : ToString(d) = ch

\* The number a string of digits stands for.
RECURSIVE NumberOf(_)
NumberOf(digits) ==
  IF Len(digits) = 0 THEN 0
  ELSE 10 * NumberOf(SubSeq(digits, 1, Len(digits) - 1))
         + DigitOf(SubSeq(digits, Len(digits), Len(digits)))

\* The last character of the number a string starts with.
EndOf(str) ==
  CHOOSE j \in 1..Len(str) :
    /\ \A k \in 1..j : SubSeq(str, k, k) # " "
    /\ j = Len(str) \/ SubSeq(str, j + 1, j + 1) = " "

\* The numbers on one line of digits and spaces, read left to right.
RECURSIVE ValuesOf(_)
ValuesOf(line) ==
  IF Len(line) = 0 THEN <<>>
  ELSE IF SubSeq(line, 1, 1) = " " THEN ValuesOf(SubSeq(line, 2, Len(line)))
  ELSE <<NumberOf(SubSeq(line, 1, EndOf(line)))>>
         \o ValuesOf(SubSeq(line, EndOf(line) + 1, Len(line)))

RECURSIVE AllValues(_)
AllValues(lines) ==
  IF lines = <<>> THEN <<>> ELSE ValuesOf(Head(lines)) \o AllValues(Tail(lines))

\* The red, green and blue values of one row of pixels, and of all rows in
\* row-major order.
RECURSIVE RowChannels(_)
RowChannels(row) ==
  IF row = <<>> THEN <<>>
  ELSE <<Head(row).red, Head(row).green, Head(row).blue>> \o RowChannels(Tail(row))

RECURSIVE Channels(_)
Channels(rows) ==
  IF rows = <<>> THEN <<>> ELSE RowChannels(Head(rows)) \o Channels(Tail(rows))

\* Whole lines taken from the front of lines until n values are read (one
\* line at least): the values read and the lines left.
RECURSIVE TakeRow(_, _, _, _)
TakeRow(lines, got, n, taken) ==
  IF lines = <<>> \/ (taken /\ Len(got) >= n) THEN [row |-> got, rest |-> lines]
  ELSE TakeRow(Tail(lines), got \o ValuesOf(Head(lines)), n, TRUE)

\* The data lines read as rows of n values that each start on a new line.
RECURSIVE RowsRead(_, _)
RowsRead(lines, n) ==
  IF lines = <<>> THEN <<>>
  ELSE LET taken == TakeRow(lines, <<>>, n, FALSE)
       IN <<taken.row>> \o RowsRead(taken.rest, n)

\* C11: what write_to_ppm returns starts with the lines P3, "<width> <height>"
\* and 255; no line of the pixel data after them is longer than 70
\* characters; read as whole lines, the data falls into one group of lines
\* per canvas row holding exactly that row's values; and all values read in
\* order are the red, green and blue values of the pixels in row-major order.
C11_PpmLayout ==
  call.method = "write_to_ppm" =>
    /\ result = "Ok"
    /\ Len(ppm) >= 3
    /\ ppm[1] = "P3"
    /\ ppm[2] = ToString(canvas.size.width) \o " " \o ToString(canvas.size.height)
    /\ ppm[3] = "255"
    /\ \A i \in 4..Len(ppm) : Len(ppm[i]) <= 70
    /\ RowsRead(SubSeq(ppm, 4, Len(ppm)), 3 * canvas.size.width)
         = [r \in 1..canvas.size.height |-> RowChannels(canvas.pixels[r])]
    /\ AllValues(SubSeq(ppm, 4, Len(ppm))) = Channels(canvas.pixels)

\* A canvas of two rows, one pixel of it painted, written out with a row
\* that did not fit on one line.
C11_Witness ==
  /\ call.method = "write_to_ppm"
  /\ canvas.size.height = 2
  /\ Len(ppm) > 3 + canvas.size.height
  /\ \E r \in 1..canvas.size.height, c \in 1..canvas.size.width :
       canvas.pixels[r][c].red = 128

\* C12: paint_colour(column, row, colour) on a canvas of width w and height h
\* with column >= w or row >= h returns Err(WriteError::OutOfBounds) without
\* failing and leaves every pixel as it was; with column < w and row < h it
\* returns Ok and changes no pixel but the one at (row, column).
C12_PaintColourBounds ==
  call.method = "paint_colour" =>
    IF call.column >= call.self.size.width \/ call.row >= call.self.size.height
      THEN /\ result = "Err"
           /\ canvas = call.self
      ELSE /\ result = "Ok"
           /\ canvas.size = call.self.size
           /\ \A r \in 1..call.self.size.height, c \in 1..call.self.size.width :
                (r # call.row + 1 \/ c # call.column + 1)
                  => canvas.pixels[r][c] = call.self.pixels[r][c]

====
